---- MODULE Spec2Model ----
(***************************************************************************)
(* bpm: a multi-module task runner.                                        *)
(*                                                                         *)
(* The model follows one run of bpm.cli.main: a validated BPMConfig and    *)
(* the parsed command line are given; Args.__init__ resolves the request   *)
(* into a list of Actions, ActionRunner.__init__ picks the execution mode, *)
(* and ActionRunner.run spawns and supervises the child processes,         *)
(* concurrently (poll loop, KeyboardInterrupt teardown) or in series.      *)
(***************************************************************************)
EXTENDS Integers, Sequences, FiniteSets, TLC

(***************************************************************************)
(* Bounds of the model.                                                    *)
(***************************************************************************)
\* Number of modules declared in the configuration.
NumModules == 2

(***************************************************************************)
(* The values configurations and command lines are built from.             *)
(***************************************************************************)
\* Module names, in the order the configuration file declares them.
\* The order is deliberately not alphabetical.
ModuleOrder == <<"web", "api", "db", "docs", "ops">>

\* Action names a module may define, in the order a module declares them.
ActionNames == <<"start", "build">>

\* A module name and an action name no configuration defines.
UnknownModuleName == "deploy"
UnknownActionName == "test"

\* Strings are modelled as sequences of one-character strings.
Space == " "

\* The executable of each module's commands (position = module position).
Executables == << <<"n", "p", "m">>, <<"g", "o">>, <<"s", "h">>,
                  <<"m", "k">>, <<"k", "c">> >>

\* Action.cmd of the action of module number mi: "<exe>  run" for the first
\* module (two blanks), "<exe> run" for the others.
CmdOf(mi) ==
    Executables[mi] \o (IF mi = 1 THEN <<Space, Space>> ELSE <<Space>>)
                    \o <<"r", "u", "n">>

\* The one additional argument users pass: "-v".
ExtraArg == <<"-", "v">>

\* Exit codes a child process may end with on its own.
ExitCodes == {0, 1}
\* Popen.returncode of a child ended by SIGTERM / SIGKILL.
SigTermCode == -15
SigKillCode == -9

(***************************************************************************)
(* config.py: Action, Module, BPMConfig                                    *)
(***************************************************************************)
\* An Action (frozen pydantic model).  args and bg are Optional[bool]; the
\* code only ever tests them for truth, where None behaves as False, so the
\* model keeps the two truth values.
MkAction(mi, an, a, b) ==
    [name |-> an, module_name |-> ModuleOrder[mi], cmd |-> CmdOf(mi),
     args |-> a, bg |-> b]

\* What a configuration may say about action name number n of module number
\* mi: nothing (<<>>), or the two flags <<args, bg>>.  Every module may
\* define "start", with any flags; "build" is a one-shot command of the
\* first module that neither accepts additional arguments nor runs in the
\* background.
ActionOptions(mi, n) ==
    {<<>>} \cup
    (IF n = 1 THEN {<<a, b>> : a \in BOOLEAN, b \in BOOLEAN}
     ELSE IF mi = 1 THEN {<<FALSE, FALSE>>} ELSE {})

\* Module.actions (an insertion-ordered dict) as the sequence of its values.
RECURSIVE MkActions(_, _, _)
MkActions(mi, opts, n) ==
    IF n > Len(ActionNames) THEN <<>>
    ELSE (IF opts[n] = <<>> THEN <<>>
          ELSE <<MkAction(mi, ActionNames[n], opts[n][1], opts[n][2])>>)
         \o MkActions(mi, opts, n + 1)

\* The choices of options for all action names of module number mi.
ModuleOptions(mi) ==
    {o \in [1..Len(ActionNames) ->
               UNION {ActionOptions(mi, n) : n \in 1..Len(ActionNames)}] :
         \A n \in 1..Len(ActionNames) : o[n] \in ActionOptions(mi, n)}

\* BPMConfig.modules (an insertion-ordered dict) as the sequence of its
\* values, every Module with the name of its key.
Configs ==
    { [mi \in 1..NumModules |->
          [name |-> ModuleOrder[mi], actions |-> MkActions(mi, sh[mi], 1)]] :
      sh \in {f \in [1..NumModules -> UNION {ModuleOptions(mi) : mi \in 1..NumModules}] :
                  \A mi \in 1..NumModules : f[mi] \in ModuleOptions(mi)} }

\* The parsed command line: --module (absent: <<>>, else <<name>>; the name
\* may be the empty string), the action, the additional arguments.
ModuleArgs(cfg) ==
    {<<>>, <<"">>, <<UnknownModuleName>>} \cup
    {<<cfg[mi].name>> : mi \in 1..Len(cfg)}

ActionArgs == {ActionNames[k] : k \in 1..Len(ActionNames)} \cup {UnknownActionName}

\* The lists of additional arguments: none, or "-v".
ExtraArgLists == {<<>>, <<ExtraArg>>}

Requests(cfg) ==
    [module : ModuleArgs(cfg), action : ActionArgs, args : ExtraArgLists]

\* Python truth of the values the code tests.
TruthyModuleArg(m) == m # <<>> /\ m[1] # ""
TruthyList(l) == l # <<>>

Range(s) == {s[i] : i \in 1..Len(s)}

(***************************************************************************)
(* config.py: BPMConfig.all_actions, BPMConfig.action_groups               *)
(***************************************************************************)
\* config.modules.keys()
ModuleKeys(cfg) == {cfg[mi].name : mi \in 1..Len(cfg)}

\* Variant of ModuleNamed: the lookup ignores the key and yields the first
\* module.
ModuleNamed_First(cfg, name) == cfg[1]

\* config.modules[name]
ModuleNamed(cfg, name) == cfg[CHOOSE mi \in 1..Len(cfg) : cfg[mi].name = name]

\* module.actions.keys()
ActionKeys(m) == {m.actions[k].name : k \in 1..Len(m.actions)}

\* module.actions[name]
ActionNamed(m, an) ==
    m.actions[CHOOSE k \in 1..Len(m.actions) : m.actions[k].name = an]

\* The Actions in the order the two nested loops of all_actions visit them:
\* modules in declaration order, each module's actions in its own order.
RECURSIVE VisitOrder(_, _)
VisitOrder(cfg, mi) ==
    IF mi > Len(cfg) THEN <<>>
    ELSE cfg[mi].actions \o VisitOrder(cfg, mi + 1)

\* cmds.get(c_name) is falsy: the key is missing or maps to an empty list.
NotGet(cmds, an) == an \notin DOMAIN cmds \/ cmds[an] = <<>>

\* Variant of AddAction: the Action is put in front of the list
\* (cmds[c_name] = [c_data] + cmds[c_name]).
AddAction_Prepend(cmds, a) ==
    LET reset == IF NotGet(cmds, a.name)
                 THEN [n \in DOMAIN cmds \cup {a.name} |->
                          IF n = a.name THEN <<>> ELSE cmds[n]]
                 ELSE cmds
    IN  [reset EXCEPT ![a.name] = <<a>> \o @]

\* One pass of the inner loop body of all_actions:
\*     if not cmds.get(c_name): cmds[c_name] = []
\*     cmds[c_name] += [c_data]
AddAction(cmds, a) ==
    LET reset == IF NotGet(cmds, a.name)
                 THEN [n \in DOMAIN cmds \cup {a.name} |->
                          IF n = a.name THEN <<>> ELSE cmds[n]]
                 ELSE cmds
    IN  [reset EXCEPT ![a.name] = @ \o <<a>>]

RECURSIVE CollectActions(_, _, _)
CollectActions(cmds, acts, k) ==
    IF k > Len(acts) THEN cmds
    ELSE CollectActions(AddAction(cmds, acts[k]), acts, k + 1)

\* BPMConfig.all_actions: action name -> the Actions of that name.
all_actions(cfg) ==
    CollectActions([n \in {} |-> <<>>], VisitOrder(cfg, 1), 1)

\* Variant of IsGroup: len(d) >= 1.
IsGroup_AtLeastOne(d) == Len(d) >= 1

\* The test of the dict comprehension of action_groups: len(d) > 1.
IsGroup(d) == Len(d) > 1

\* BPMConfig.action_groups
action_groups(cfg) ==
    LET all == all_actions(cfg)
    IN  [n \in {x \in DOMAIN all : IsGroup(all[x])} |-> all[n]]

(***************************************************************************)
(* cli.py: the tests of Args.__init__ and ActionRunner.__init__            *)
(***************************************************************************)
\* args.module in config.modules.keys()
ModuleConfigured(cfg, name) == name \in ModuleKeys(cfg)

\* args.action in self.module.actions.keys()
ActionConfigured(m, an) == an \in ActionKeys(m)

\* Variant of ArgsRefused: the test is left out.
ArgsRefused_Never(a, extra) == FALSE

\* args.args and not a.args
ArgsRefused(a, extra) == TruthyList(extra) /\ ~a.args

\* [(a.args if a.args else False) for a in self.actions]
ActionsAcceptingArgs(acts) ==
    [k \in 1..Len(acts) |-> IF acts[k].args THEN acts[k].args ELSE FALSE]

\* Variant of PyAny: all() where any() is meant.
PyAny_AsAll(bs) == \A n \in 1..Len(bs) : bs[n]

\* Python's any() and all() over a list of booleans.
PyAny(bs) == \E k \in 1..Len(bs) : bs[k]
PyAll(bs) == \A k \in 1..Len(bs) : bs[k]

\* Variant of AllBackgroundable: any() where all() is meant.
AllBackgroundable_Any(acts) == \E n \in 1..Len(acts) : acts[n].bg

\* all([a.bg for a in self.actions])
AllBackgroundable(acts) == PyAll([k \in 1..Len(acts) |-> acts[k].bg])

\* shlex.split for commands without quotes or escapes: the maximal runs of
\* non-blank characters.  ShlexFrom(s, k, tok) scans from position k with
\* the token collected so far.
RECURSIVE ShlexFrom(_, _, _)
ShlexFrom(s, k, tok) ==
    IF k > Len(s) THEN (IF tok = <<>> THEN <<>> ELSE <<tok>>)
    ELSE IF s[k] = Space
         THEN (IF tok = <<>> THEN <<>> ELSE <<tok>>) \o ShlexFrom(s, k + 1, <<>>)
         ELSE ShlexFrom(s, k + 1, Append(tok, s[k]))

ShlexSplit(s) == ShlexFrom(s, 1, <<>>)

\* command = shlex.split(action.cmd) + self.action_args
Command(a, extra) == ShlexSplit(a.cmd) \o extra

\* logger.error(..., exiting=True) ends the program with exit(1).
ErrorExitCode == 1
\* sys.exit(1) of the KeyboardInterrupt handler.
InterruptExitCode == 1
\* main() returning: the interpreter ends with status 0.
NormalExitCode == 0

(***************************************************************************)
(* cli.py: the pipes of the children and ActionRunner._stream_output       *)
(***************************************************************************)
\* Most lines the children of one run write to their pipes, all together.
MaxLines == 2

\* The two pipes of a child started by Popen.
StreamNames == {"stdout", "stderr"}

\* The pipes of the children of one run: child number p, stream s.
StreamIds == (1..NumModules) \X StreamNames

\* A pipe nothing was written to: the lines written so far, how many of
\* them the reader has taken, and the reader thread ("unstarted",
\* "running", "failed" once an exception has ended it).
NewStream == [written |-> <<>>, nread |-> 0, reader |-> "unstarted"]

\* A byte that is not valid UTF-8.
BadByte == "0xff"

\* The lines a child writes, as sequences of bytes: text with a trailing
\* blank, and a line that cannot be decoded.
Lines == { <<"o", "k", Space, "\n">>, <<BadByte, "\n">> }

\* line.decode('utf-8') raises UnicodeDecodeError.
Undecodable(line) == \E n \in 1..Len(line) : line[n] = BadByte

\* str.rstrip(): trailing whitespace is dropped.
Whitespace == {Space, "\n", "\t", "\r"}
RECURSIVE Rstrip(_)
Rstrip(str) ==
    IF str # <<>> /\ str[Len(str)] \in Whitespace
    THEN Rstrip(SubSeq(str, 1, Len(str) - 1))
    ELSE str

\* The prefix of the lines of action a's stream s:
\* f"{action.module_name}.{action.name}", followed by " ERR" for stderr.
Prefix(a, s) ==
    <<a.module_name, ".", a.name>> \o
        (IF s = "stderr" THEN <<Space, "ERR">> ELSE <<>>)

\* print(f"[{prefix}] {line.decode('utf-8').rstrip()}")
Formatted(prefix, line) == <<"[">> \o prefix \o <<"]", Space>> \o Rstrip(line)

(***************************************************************************)
(* The state of one run of main().                                         *)
(***************************************************************************)
VARIABLES
    config,            \* the BPMConfig load_config returned
    request,           \* parser.parse_args(): module, action, args
    pc,                \* where the control thread is
    actions,           \* Args.actions, then ActionRunner.actions
    action_args,       \* Args.args, then ActionRunner.action_args
    can_run_simultaneously,  \* ActionRunner.can_run_simultaneously
    processes,         \* ActionRunner.processes: children in insertion order
    children,          \* every child process started, in start order
    i,                 \* position of the `for action in self.actions` loops
    snapshot,          \* list(self.processes.items()) of the poll loop
    j,                 \* position of the loop over snapshot
    k,                 \* position of the loop of _kill_all_processes
    resolution_error,  \* the error Args.__init__ ended with, or "none"
    warned,            \* logger.warn of Args.__init__ was called
    spawn_failed,      \* a FileNotFoundError ended the run
    interrupted,       \* KeyboardInterrupt was raised in the control thread
    reported,          \* "Action X completed with exit code N" lines
    killed,            \* "Killed process for X" lines
    kill_errors,       \* "Error killing process for X" lines
    exit_code,         \* <<>> while running, <<status>> once the program ended
    streams,           \* the stdout / stderr pipe of every child, its reader
    sink,              \* the lines the reader threads printed, in order
    resolutions,       \* the outcome of every Args.__init__ so far
    raw,               \* the data of a module handed to Module.model_validate
    fs,                \* the directories that exist
    built              \* <<>>, or <<the Module that model_validate returned>>

vars == <<config, request, pc, actions, action_args, can_run_simultaneously,
          processes, children, i, snapshot, j, k, resolution_error, warned,
          spawn_failed, interrupted, reported, killed, kill_errors, exit_code,
          streams, sink, resolutions, raw, fs, built>>

\* The variables of the validation of a module.
loadVars == <<raw, fs, built>>

\* Everything but the control position and the variables of the validation.
mainVars == <<config, request, actions, action_args, can_run_simultaneously,
              processes, children, i, snapshot, j, k, resolution_error,
              warned, spawn_failed, interrupted, reported, killed,
              kill_errors, exit_code, streams, sink, resolutions>>

\* The variables Args.__init__ leaves alone.
runVars == <<can_run_simultaneously, processes, children, i, snapshot, j, k,
             spawn_failed, interrupted, reported, killed, kill_errors>>

\* The configuration is loaded and the command line is parsed; the
\* variables of the validation of a module are not used by a run.
Init ==
    /\ config \in Configs
    /\ request \in Requests(config)
    /\ pc = "args"
    /\ actions = <<>>
    /\ action_args = <<>>
    /\ can_run_simultaneously = FALSE
    /\ processes = <<>>
    /\ children = <<>>
    /\ i = 1
    /\ snapshot = <<>>
    /\ j = 1
    /\ k = 1
    /\ resolution_error = "none"
    /\ warned = FALSE
    /\ spawn_failed = FALSE
    /\ interrupted = FALSE
    /\ reported = <<>>
    /\ killed = <<>>
    /\ kill_errors = <<>>
    /\ exit_code = <<>>
    /\ streams = [q \in StreamIds |-> NewStream]
    /\ sink = <<>>
    /\ resolutions = <<>>
    /\ raw = <<>>
    /\ fs = {}
    /\ built = <<>>

(***************************************************************************)
(* cli.py: Args.__init__                                                   *)
(***************************************************************************)
\* Variant of ResolutionFails: logger.error(..., exiting=False), the message
\* is printed and Args.__init__ goes on.
ResolutionFails_Continue(kind, acts, extra) ==
    /\ resolution_error' = kind
    /\ actions' = acts
    /\ action_args' = extra
    /\ warned' = FALSE
    /\ pc' = "runner"
    /\ exit_code' = <<>>

\* logger.error(message, exiting=True) inside Args.__init__: the message is
\* printed and exit(1) ends the program.  acts and extra are the values
\* self.actions and self.args hold at that point.
ResolutionFails(kind, acts, extra) ==
    /\ resolution_error' = kind
    /\ actions' = acts
    /\ action_args' = extra
    /\ warned' = FALSE
    /\ pc' = "exited"
    /\ exit_code' = <<ErrorExitCode>>

\* Variant of ResolutionSucceeds: the additional arguments are added to the
\* list of the class attribute `args` (`self.args += ...`), which every
\* Args object shares.
ResolutionSucceeds_Accumulate(acts, extra, warn) ==
    /\ resolution_error' = "none"
    /\ actions' = acts
    /\ action_args' = action_args \o extra
    /\ warned' = warn
    /\ pc' = "runner"
    /\ exit_code' = <<>>

\* Args.__init__ returns.
ResolutionSucceeds(acts, extra, warn) ==
    /\ resolution_error' = "none"
    /\ actions' = acts
    /\ action_args' = extra
    /\ warned' = warn
    /\ pc' = "runner"
    /\ exit_code' = <<>>

\* The branch `if args.module:`.
ResolveInModule(cfg, req) ==
    IF ~ModuleConfigured(cfg, req.module[1])
    THEN ResolutionFails("UnknownModule", <<>>, <<>>)
    ELSE LET m == ModuleNamed(cfg, req.module[1]) IN
         IF ~ActionConfigured(m, req.action)
         THEN ResolutionFails("UnknownAction", <<>>, <<>>)
         ELSE LET a == ActionNamed(m, req.action) IN
              IF ArgsRefused(a, req.args)
              THEN ResolutionFails("ArgsNotAllowed", <<a>>, <<>>)
              ELSE ResolutionSucceeds(<<a>>, req.args, FALSE)

\* The branch `else:` (no module given).
ResolveGroup(cfg, req) ==
    LET ags == action_groups(cfg) IN
    IF req.action \notin DOMAIN ags
    THEN ResolutionFails("NotAGroup", <<>>, <<>>)
    ELSE LET acts == ags[req.action]
             accepting == ActionsAcceptingArgs(acts)
         IN  IF TruthyList(req.args) /\ ~PyAny(accepting)
             THEN ResolutionFails("ArgsNotAllowed", acts, <<>>)
             ELSE ResolutionSucceeds(acts, req.args,
                      TruthyList(req.args) /\ ~PyAll(accepting))

ArgsInit ==
    /\ pc = "args"
    /\ IF TruthyModuleArg(request.module)
       THEN ResolveInModule(config, request)
       ELSE ResolveGroup(config, request)
    /\ resolutions' = Append(resolutions, [request |-> request,
                                           error |-> resolution_error',
                                           actions |-> actions',
                                           args |-> action_args',
                                           warned |-> warned',
                                           status |-> exit_code'])
    /\ UNCHANGED <<loadVars, streams, sink, config, request, runVars>>

(***************************************************************************)
(* cli.py: ActionRunner.__init__                                           *)
(***************************************************************************)
RunnerInit ==
    /\ pc = "runner"
    /\ can_run_simultaneously' = AllBackgroundable(actions)
    /\ pc' = "run"
    /\ UNCHANGED <<loadVars, resolutions, streams, sink,
                   config, request, actions, action_args, processes, children,
                   i, snapshot, j, k, resolution_error, warned, spawn_failed,
                   interrupted, reported, killed, kill_errors, exit_code>>

(***************************************************************************)
(* cli.py: ActionRunner.run                                                *)
(***************************************************************************)
\* The child process subprocess.Popen / subprocess.run starts for action
\* number n of self.actions.
NewChild(n) ==
    [action |-> n, command |-> Command(actions[n], action_args),
     state |-> "running", code |-> 0, signals |-> {}]

\* del self.processes[action]
Without(procs, p) == SelectSeq(procs, LAMBDA q : q # p)

\* `if self.can_run_simultaneously:` and the entry of both branches.
Run ==
    /\ pc = "run"
    /\ pc' = IF can_run_simultaneously THEN "spawn" ELSE "seq"
    /\ i' = 1
    /\ UNCHANGED <<loadVars, resolutions, streams, sink,
                   config, request, actions, action_args,
                   can_run_simultaneously, processes, children, snapshot, j, k,
                   resolution_error, warned, spawn_failed, interrupted,
                   reported, killed, kill_errors, exit_code>>

\* Concurrent branch, `for action in self.actions`: subprocess.Popen starts
\* the child of the next action.
Popen ==
    /\ pc = "spawn"
    /\ i <= Len(actions)
    /\ children' = Append(children, NewChild(i))
    /\ pc' = "register"
    /\ UNCHANGED <<loadVars, resolutions, streams, sink,
                   config, request, actions, action_args,
                   can_run_simultaneously, processes, i, snapshot, j, k,
                   resolution_error, warned, spawn_failed, interrupted,
                   reported, killed, kill_errors, exit_code>>

\* Variant of PopenFails: logger.error(..., exiting=False), the message is
\* printed and the spawn loop goes on with the next action.
PopenFails_Continue ==
    /\ pc = "spawn"
    /\ i <= Len(actions)
    /\ spawn_failed' = TRUE
    /\ i' = i + 1
    /\ UNCHANGED <<loadVars, resolutions, streams, sink,
                   config, request, pc, actions, action_args,
                   can_run_simultaneously, processes, children, snapshot,
                   j, k, resolution_error, warned, interrupted, reported,
                   killed, kill_errors, exit_code>>

\* subprocess.Popen raises FileNotFoundError: logger.error(..., exiting=True).
PopenFails ==
    /\ pc = "spawn"
    /\ i <= Len(actions)
    /\ spawn_failed' = TRUE
    /\ pc' = "exited"
    /\ exit_code' = <<ErrorExitCode>>
    /\ UNCHANGED <<loadVars, resolutions, streams, sink,
                   config, request, actions, action_args,
                   can_run_simultaneously, processes, children, i, snapshot,
                   j, k, resolution_error, warned, interrupted, reported,
                   killed, kill_errors>>

\* The reader threads are started and `self.processes[action] = proc`
\* registers the child that Popen returned.
Register ==
    /\ pc = "register"
    /\ processes' = Append(processes, Len(children))
    /\ i' = i + 1
    /\ pc' = "spawn"
    /\ streams' = [q \in DOMAIN streams |->
                      IF q[1] = Len(children)
                      THEN [streams[q] EXCEPT !.reader = "running"]
                      ELSE streams[q]]
    /\ UNCHANGED <<loadVars, resolutions, sink,
                   config, request, actions, action_args,
                   can_run_simultaneously, children, snapshot, j, k,
                   resolution_error, warned, spawn_failed, interrupted,
                   reported, killed, kill_errors, exit_code>>

\* The spawn loop is exhausted: on to `while self.processes:`.
SpawnLoopEnds ==
    /\ pc = "spawn"
    /\ i > Len(actions)
    /\ pc' = "while"
    /\ UNCHANGED <<loadVars, resolutions, streams, sink,
                   config, request, actions, action_args,
                   can_run_simultaneously, processes, children, i, snapshot,
                   j, k, resolution_error, warned, spawn_failed, interrupted,
                   reported, killed, kill_errors, exit_code>>

\* `while self.processes:` is true: the inner loop starts over a copy,
\* list(self.processes.items()).
PollBegins ==
    /\ pc = "while"
    /\ processes # <<>>
    /\ snapshot' = processes
    /\ j' = 1
    /\ pc' = "for"
    /\ UNCHANGED <<loadVars, resolutions, streams, sink,
                   config, request, actions, action_args,
                   can_run_simultaneously, processes, children, i, k,
                   resolution_error, warned, spawn_failed, interrupted,
                   reported, killed, kill_errors, exit_code>>

\* Variant of PollCompleted: the completion is logged but the entry is not
\* deleted from self.processes.
PollCompleted_NoDel ==
    /\ pc = "for"
    /\ j <= Len(snapshot)
    /\ children[snapshot[j]].state = "exited"
    /\ reported' = Append(reported, [action |-> children[snapshot[j]].action,
                                     code |-> children[snapshot[j]].code])
    /\ j' = j + 1
    /\ UNCHANGED <<loadVars, resolutions, streams, sink,
                   config, request, pc, actions, action_args,
                   can_run_simultaneously, processes, children, i, snapshot,
                   k, resolution_error, warned, spawn_failed, interrupted,
                   killed, kill_errors, exit_code>>

\* proc.poll() is not None: the completion is logged and the child leaves
\* self.processes.
PollCompleted ==
    /\ pc = "for"
    /\ j <= Len(snapshot)
    /\ children[snapshot[j]].state = "exited"
    /\ reported' = Append(reported, [action |-> children[snapshot[j]].action,
                                     code |-> children[snapshot[j]].code])
    /\ processes' = Without(processes, snapshot[j])
    /\ j' = j + 1
    /\ UNCHANGED <<loadVars, resolutions, streams, sink,
                   config, request, pc, actions, action_args,
                   can_run_simultaneously, children, i, snapshot, k,
                   resolution_error, warned, spawn_failed, interrupted,
                   killed, kill_errors, exit_code>>

\* proc.poll() is None: the child is still running.
PollRunning ==
    /\ pc = "for"
    /\ j <= Len(snapshot)
    /\ children[snapshot[j]].state = "running"
    /\ j' = j + 1
    /\ UNCHANGED <<loadVars, resolutions, streams, sink,
                   config, request, pc, actions, action_args,
                   can_run_simultaneously, processes, children, i, snapshot,
                   k, resolution_error, warned, spawn_failed, interrupted,
                   reported, killed, kill_errors, exit_code>>

\* The inner loop is exhausted; time.sleep(0.1) if children are left.  The
\* copy the loop ran over is dropped.
PollSleeps ==
    /\ pc = "for"
    /\ j > Len(snapshot)
    /\ snapshot' = <<>>
    /\ j' = 1
    /\ pc' = "while"
    /\ UNCHANGED <<loadVars, resolutions, streams, sink,
                   config, request, actions, action_args,
                   can_run_simultaneously, processes, children, i, k,
                   resolution_error, warned, spawn_failed, interrupted,
                   reported, killed, kill_errors, exit_code>>

\* Variant of AllCompleted: the poll loop is left without looking at
\* self.processes.
AllCompleted_Early ==
    /\ pc = "while"
    /\ pc' = "returned"
    /\ exit_code' = <<NormalExitCode>>
    /\ UNCHANGED <<loadVars, resolutions, streams, sink,
                   config, request, actions, action_args,
                   can_run_simultaneously, processes, children, i, snapshot,
                   j, k, resolution_error, warned, spawn_failed, interrupted,
                   reported, killed, kill_errors>>

\* `while self.processes:` is false: "All actions completed.", run() and
\* main() return.
AllCompleted ==
    /\ pc = "while"
    /\ processes = <<>>
    /\ pc' = "returned"
    /\ exit_code' = <<NormalExitCode>>
    /\ UNCHANGED <<loadVars, resolutions, streams, sink,
                   config, request, actions, action_args,
                   can_run_simultaneously, processes, children, i, snapshot,
                   j, k, resolution_error, warned, spawn_failed, interrupted,
                   reported, killed, kill_errors>>

\* The positions of the control thread inside the `try:` block of the
\* concurrent branch.
InTry == pc \in {"spawn", "register", "while", "for"}

\* KeyboardInterrupt is raised in the control thread somewhere inside the
\* `try:` block; the handler calls self._kill_all_processes().  One
\* interrupt per run.  The handler reads none of the loops' variables, so
\* the copy of the poll loop is dropped.
Interrupt ==
    /\ InTry
    /\ ~interrupted
    /\ interrupted' = TRUE
    /\ snapshot' = <<>>
    /\ j' = 1
    /\ k' = 1
    /\ pc' = "kill"
    /\ UNCHANGED <<loadVars, resolutions, streams, sink,
                   config, request, actions, action_args,
                   can_run_simultaneously, processes, children, i,
                   resolution_error, warned, spawn_failed, reported,
                   killed, kill_errors, exit_code>>

(***************************************************************************)
(* cli.py: ActionRunner._kill_all_processes                                *)
(***************************************************************************)
\* Variant of KillTerminate: proc.kill() in place of proc.terminate().
KillTerminate_ForceKill ==
    /\ pc = "kill"
    /\ k <= Len(processes)
    /\ children' = [children EXCEPT ![processes[k]] =
                       IF children[processes[k]].state = "running"
                       THEN [@ EXCEPT !.signals = @ \cup {"SIGKILL"},
                                      !.state = "exited",
                                      !.code = SigKillCode]
                       ELSE @]
    /\ pc' = "kill_wait"
    /\ UNCHANGED <<loadVars, resolutions, streams, sink,
                   config, request, actions, action_args,
                   can_run_simultaneously, processes, i, snapshot, j, k,
                   resolution_error, warned, spawn_failed, interrupted,
                   reported, killed, kill_errors, exit_code>>

\* proc.terminate(): SIGTERM goes to a child that is still running; for a
\* child that has exited Popen.send_signal does nothing.
KillTerminate ==
    /\ pc = "kill"
    /\ k <= Len(processes)
    /\ children' = [children EXCEPT ![processes[k]].signals =
                       IF children[processes[k]].state = "running"
                       THEN @ \cup {"SIGTERM"} ELSE @]
    /\ pc' = "kill_wait"
    /\ UNCHANGED <<loadVars, resolutions, streams, sink,
                   config, request, actions, action_args,
                   can_run_simultaneously, processes, i, snapshot, j, k,
                   resolution_error, warned, spawn_failed, interrupted,
                   reported, killed, kill_errors, exit_code>>

\* Variant of KillTerminateFails: the exception of proc.terminate() is not
\* caught inside the loop; it is logged and the program ends.
KillTerminateFails_Abort ==
    /\ pc = "kill"
    /\ k <= Len(processes)
    /\ children[processes[k]].state = "running"
    /\ kill_errors' = Append(kill_errors, processes[k])
    /\ pc' = "exited"
    /\ exit_code' = <<1>>
    /\ UNCHANGED <<loadVars, resolutions, streams, sink,
                   config, request, actions, action_args,
                   can_run_simultaneously, processes, children, i, snapshot,
                   j, k, resolution_error, warned, spawn_failed, interrupted,
                   reported, killed>>

\* proc.terminate() raises (the signal cannot be delivered): the error is
\* logged with exiting=False and the loop goes on.
KillTerminateFails ==
    /\ pc = "kill"
    /\ k <= Len(processes)
    /\ children[processes[k]].state = "running"
    /\ kill_errors' = Append(kill_errors, processes[k])
    /\ k' = k + 1
    /\ UNCHANGED <<loadVars, resolutions, streams, sink,
                   config, request, pc, actions, action_args,
                   can_run_simultaneously, processes, children, i, snapshot,
                   j, resolution_error, warned, spawn_failed, interrupted,
                   reported, killed, exit_code>>

\* proc.wait(timeout=3) returns: the child has exited within the grace
\* period.
KillWaitReturns ==
    /\ pc = "kill_wait"
    /\ children[processes[k]].state = "exited"
    /\ killed' = Append(killed, processes[k])
    /\ k' = k + 1
    /\ pc' = "kill"
    /\ UNCHANGED <<loadVars, resolutions, streams, sink,
                   config, request, actions, action_args,
                   can_run_simultaneously, processes, children, i, snapshot,
                   j, resolution_error, warned, spawn_failed, interrupted,
                   reported, kill_errors, exit_code>>

\* proc.wait(timeout=3) raises TimeoutExpired: proc.kill() sends SIGKILL and
\* proc.wait() returns once the child is gone.
KillTimeout ==
    /\ pc = "kill_wait"
    /\ children[processes[k]].state = "running"
    /\ children' = [children EXCEPT ![processes[k]] =
                       [@ EXCEPT !.signals = @ \cup {"SIGKILL"},
                                 !.state = "exited", !.code = SigKillCode]]
    /\ killed' = Append(killed, processes[k])
    /\ k' = k + 1
    /\ pc' = "kill"
    /\ UNCHANGED <<loadVars, resolutions, streams, sink,
                   config, request, actions, action_args,
                   can_run_simultaneously, processes, i, snapshot, j,
                   resolution_error, warned, spawn_failed, interrupted,
                   reported, kill_errors, exit_code>>

\* proc.wait(timeout=3) raises TimeoutExpired and proc.kill() raises: the
\* error is logged with exiting=False and the loop goes on.
KillTimeoutFails ==
    /\ pc = "kill_wait"
    /\ children[processes[k]].state = "running"
    /\ kill_errors' = Append(kill_errors, processes[k])
    /\ k' = k + 1
    /\ pc' = "kill"
    /\ UNCHANGED <<loadVars, resolutions, streams, sink,
                   config, request, actions, action_args,
                   can_run_simultaneously, processes, children, i, snapshot,
                   j, resolution_error, warned, spawn_failed, interrupted,
                   reported, killed, exit_code>>

\* Variant of KillAllDone: the loop is left after its first pass.
KillAllDone_AfterFirst ==
    /\ pc = "kill"
    /\ (k > Len(processes) \/ k > 1)
    /\ processes' = <<>>
    /\ pc' = "exited"
    /\ exit_code' = <<1>>
    /\ UNCHANGED <<loadVars, resolutions, streams, sink,
                   config, request, actions, action_args,
                   can_run_simultaneously, children, i, snapshot, j, k,
                   resolution_error, warned, spawn_failed, interrupted,
                   reported, killed, kill_errors>>

\* The loop is exhausted: self.processes.clear(), then sys.exit(1) of the
\* KeyboardInterrupt handler.
KillAllDone ==
    /\ pc = "kill"
    /\ k > Len(processes)
    /\ processes' = <<>>
    /\ pc' = "exited"
    /\ exit_code' = <<InterruptExitCode>>
    /\ UNCHANGED <<loadVars, resolutions, streams, sink,
                   config, request, actions, action_args,
                   can_run_simultaneously, children, i, snapshot, j, k,
                   resolution_error, warned, spawn_failed, interrupted,
                   reported, killed, kill_errors>>

(***************************************************************************)
(* cli.py: ActionRunner.run, the sequential branch                         *)
(***************************************************************************)
\* Variant of SeqRun: the child is started with subprocess.Popen and not
\* waited for; the loop goes to the next action at once.
SeqRun_NoWait ==
    /\ pc = "seq"
    /\ i <= Len(actions)
    /\ children' = Append(children, NewChild(i))
    /\ i' = i + 1
    /\ UNCHANGED <<loadVars, resolutions, streams, sink,
                   config, request, pc, actions, action_args,
                   can_run_simultaneously, processes, snapshot, j, k,
                   resolution_error, warned, spawn_failed, interrupted,
                   reported, killed, kill_errors, exit_code>>

\* subprocess.run starts the child of the next action and waits for it.
SeqRun ==
    /\ pc = "seq"
    /\ i <= Len(actions)
    /\ children' = Append(children, NewChild(i))
    /\ pc' = "seq_wait"
    /\ UNCHANGED <<loadVars, resolutions, streams, sink,
                   config, request, actions, action_args,
                   can_run_simultaneously, processes, i, snapshot, j, k,
                   resolution_error, warned, spawn_failed, interrupted,
                   reported, killed, kill_errors, exit_code>>

\* subprocess.run raises FileNotFoundError: logger.error(..., exiting=True).
SeqRunFails ==
    /\ pc = "seq"
    /\ i <= Len(actions)
    /\ spawn_failed' = TRUE
    /\ pc' = "exited"
    /\ exit_code' = <<ErrorExitCode>>
    /\ UNCHANGED <<loadVars, resolutions, streams, sink,
                   config, request, actions, action_args,
                   can_run_simultaneously, processes, children, i, snapshot,
                   j, k, resolution_error, warned, interrupted, reported,
                   killed, kill_errors>>

\* Variant of SeqCompleted: subprocess.run(..., check=True), a non-zero exit
\* status of the child ends the run with that status.
SeqCompleted_AbortOnFailure ==
    /\ pc = "seq_wait"
    /\ children[Len(children)].state = "exited"
    /\ reported' = Append(reported, [action |-> children[Len(children)].action,
                                     code |-> children[Len(children)].code])
    /\ i' = i + 1
    /\ pc' = IF children[Len(children)].code = 0 THEN "seq" ELSE "exited"
    /\ exit_code' = IF children[Len(children)].code = 0
                    THEN exit_code ELSE <<children[Len(children)].code>>
    /\ UNCHANGED <<loadVars, resolutions, streams, sink,
                   config, request, actions, action_args,
                   can_run_simultaneously, processes, children, snapshot, j,
                   k, resolution_error, warned, spawn_failed, interrupted,
                   killed, kill_errors>>

\* subprocess.run returns the CompletedProcess: the completion is logged and
\* the loop goes to the next action.
SeqCompleted ==
    /\ pc = "seq_wait"
    /\ children[Len(children)].state = "exited"
    /\ reported' = Append(reported, [action |-> children[Len(children)].action,
                                     code |-> children[Len(children)].code])
    /\ i' = i + 1
    /\ pc' = "seq"
    /\ UNCHANGED <<loadVars, resolutions, streams, sink,
                   config, request, actions, action_args,
                   can_run_simultaneously, processes, children, snapshot, j,
                   k, resolution_error, warned, spawn_failed, interrupted,
                   killed, kill_errors, exit_code>>

\* The loop is exhausted: "All processes completed", run() and main() return.
SeqLoopEnds ==
    /\ pc = "seq"
    /\ i > Len(actions)
    /\ pc' = "returned"
    /\ exit_code' = <<NormalExitCode>>
    /\ UNCHANGED <<loadVars, resolutions, streams, sink,
                   config, request, actions, action_args,
                   can_run_simultaneously, processes, children, i, snapshot,
                   j, k, resolution_error, warned, spawn_failed, interrupted,
                   reported, killed, kill_errors>>

(***************************************************************************)
(* The environment: the child processes                                    *)
(***************************************************************************)
\* While bpm runs, a running child ends: with a status of its own, or, once
\* SIGTERM was sent to it, by that signal.  A child may also ignore SIGTERM
\* and run on.
ChildExit(p) ==
    /\ p \in 1..Len(children)
    /\ pc \notin {"exited", "returned"}
    /\ children[p].state = "running"
    /\ \E c \in (IF "SIGTERM" \in children[p].signals
                 THEN {SigTermCode} ELSE ExitCodes) :
           children' = [children EXCEPT ![p].state = "exited",
                                        ![p].code = c]
    /\ UNCHANGED <<loadVars, resolutions, streams, sink,
                   config, request, pc, actions, action_args,
                   can_run_simultaneously, processes, i, snapshot, j, k,
                   resolution_error, warned, spawn_failed, interrupted,
                   reported, killed, kill_errors, exit_code>>

\* Some child ends.
ChildExits == \E p \in 1..Len(children) : ChildExit(p)

Next ==
    \/ ArgsInit
    \/ RunnerInit
    \/ Run
    \/ Popen
    \/ PopenFails
    \/ Register
    \/ SpawnLoopEnds
    \/ PollBegins
    \/ PollCompleted
    \/ PollRunning
    \/ PollSleeps
    \/ AllCompleted
    \/ Interrupt
    \/ KillTerminate
    \/ KillTerminateFails
    \/ KillWaitReturns
    \/ KillTimeout
    \/ KillTimeoutFails
    \/ KillAllDone
    \/ SeqRun
    \/ SeqRunFails
    \/ SeqCompleted
    \/ SeqLoopEnds
    \/ ChildExits

Spec == Init /\ [][Next]_vars

(***************************************************************************)
(* A run in which no KeyboardInterrupt arrives and every child ends.       *)
(***************************************************************************)
\* The steps of the control thread outside the KeyboardInterrupt handler.
ControlStep ==
    \/ ArgsInit
    \/ RunnerInit
    \/ Run
    \/ Popen
    \/ PopenFails
    \/ Register
    \/ SpawnLoopEnds
    \/ PollBegins
    \/ PollCompleted
    \/ PollRunning
    \/ PollSleeps
    \/ AllCompleted
    \/ SeqRun
    \/ SeqRunFails
    \/ SeqCompleted
    \/ SeqLoopEnds

NextUninterrupted ==
    \/ ControlStep
    \/ ChildExits

\* The control thread is never suspended for ever (its only waits are
\* time.sleep(0.1) and subprocess.run, which return), and every child that
\* was started ends.
LiveSpec ==
    /\ Init
    /\ [][NextUninterrupted]_vars
    /\ WF_vars(ControlStep)
    /\ \A p \in 1..NumModules : WF_vars(ChildExit(p))

(***************************************************************************)
(* cli.py: the children's output and the reader threads of the concurrent  *)
(* branch                                                                  *)
(***************************************************************************)
\* The number of lines written so far to the pipes ids.
RECURSIVE SumWritten(_)
SumWritten(ids) ==
    IF ids = {} THEN 0
    ELSE LET q == CHOOSE x \in ids : TRUE
         IN  Len(streams[q].written) + SumWritten(ids \ {q})

\* A running child of the concurrent branch writes a line to its stdout or
\* stderr pipe.
ChildWrites ==
    \E q \in StreamIds, line \in Lines :
        /\ can_run_simultaneously
        /\ pc \notin {"exited", "returned"}
        /\ q[1] <= Len(children)
        /\ children[q[1]].state = "running"
        /\ SumWritten(StreamIds) < MaxLines
        /\ streams' = [streams EXCEPT ![q].written = Append(@, line)]
        /\ UNCHANGED <<loadVars, resolutions, sink,
                       config, request, pc, actions, action_args,
                       can_run_simultaneously, processes, children, i,
                       snapshot, j, k, resolution_error, warned,
                       spawn_failed, interrupted, reported, killed,
                       kill_errors, exit_code>>

\* The record of one printed line: the text, and the pipe and position the
\* line was taken from.
Emitted(q, n) ==
    [text |-> Formatted(Prefix(actions[children[q[1]].action], q[2]),
                        streams[q].written[n]),
     child |-> q[1], stream |-> q[2], n |-> n]

\* Variant of ReaderReads: the prefix is looked up when the line is
\* printed, in the variable of the spawn loop, which by then holds the last
\* action.
ReaderReads_LatePrefix ==
    \E q \in StreamIds :
        /\ pc \notin {"exited", "returned"}
        /\ streams[q].reader = "running"
        /\ streams[q].nread < Len(streams[q].written)
        /\ ~Undecodable(streams[q].written[streams[q].nread + 1])
        /\ streams' = [streams EXCEPT ![q].nread = @ + 1]
        /\ sink' = Append(sink,
               [Emitted(q, streams[q].nread + 1) EXCEPT !.text =
                    Formatted(Prefix(actions[Len(actions)], q[2]),
                              streams[q].written[streams[q].nread + 1])])
        /\ UNCHANGED <<loadVars, resolutions,
                       config, request, pc, actions, action_args,
                       can_run_simultaneously, processes, children, i,
                       snapshot, j, k, resolution_error, warned,
                       spawn_failed, interrupted, reported, killed,
                       kill_errors, exit_code>>

\* _stream_output, one pass of `for line in iter(stream.readline, b"")`:
\* the reader thread of a pipe takes the next line and prints it with the
\* prefix.  The threads are daemons: they end with the program.  At the end
\* of the pipe (the child has exited, every line is taken) the loop ends
\* and the stream is closed; the reader has no further step.
ReaderReads ==
    \E q \in StreamIds :
        /\ pc \notin {"exited", "returned"}
        /\ streams[q].reader = "running"
        /\ streams[q].nread < Len(streams[q].written)
        /\ ~Undecodable(streams[q].written[streams[q].nread + 1])
        /\ streams' = [streams EXCEPT ![q].nread = @ + 1]
        /\ sink' = Append(sink, Emitted(q, streams[q].nread + 1))
        /\ UNCHANGED <<loadVars, resolutions,
                       config, request, pc, actions, action_args,
                       can_run_simultaneously, processes, children, i,
                       snapshot, j, k, resolution_error, warned,
                       spawn_failed, interrupted, reported, killed,
                       kill_errors, exit_code>>

\* _stream_output, `except Exception`: the line cannot be decoded;
\* logger.error prints the error and its exit(1) ends the reader thread
\* (SystemExit raised in a thread ends that thread only); `finally` closes
\* the stream.
ReaderFails ==
    \E q \in StreamIds :
        /\ pc \notin {"exited", "returned"}
        /\ streams[q].reader = "running"
        /\ streams[q].nread < Len(streams[q].written)
        /\ Undecodable(streams[q].written[streams[q].nread + 1])
        /\ streams' = [streams EXCEPT ![q].nread = @ + 1,
                                      ![q].reader = "failed"]
        /\ UNCHANGED <<loadVars, resolutions, sink,
                       config, request, pc, actions, action_args,
                       can_run_simultaneously, processes, children, i,
                       snapshot, j, k, resolution_error, warned,
                       spawn_failed, interrupted, reported, killed,
                       kill_errors, exit_code>>

\* `bpm start` for a configuration whose first two modules define "start",
\* to run in the background, and nothing else is defined.
InitStreams ==
    /\ Init
    /\ \A mi \in 1..Len(config) :
           Len(config[mi].actions) = (IF mi <= 2 THEN 1 ELSE 0)
    /\ request = [module |-> <<>>, action |-> ActionNames[1], args |-> <<>>]
    /\ LET ags == action_groups(config) IN
       /\ request.action \in DOMAIN ags
       /\ Len(ags[request.action]) = 2
       /\ AllBackgroundable(ags[request.action])
       /\ \A n \in 1..2 : ~ags[request.action][n].args

\* The steps of a concurrent run without KeyboardInterrupt: the control
\* thread, the children, the reader threads.
NextStreams ==
    \/ ArgsInit
    \/ RunnerInit
    \/ Run
    \/ Popen
    \/ PopenFails
    \/ Register
    \/ SpawnLoopEnds
    \/ PollBegins
    \/ PollCompleted
    \/ PollRunning
    \/ PollSleeps
    \/ AllCompleted
    \/ ChildExits
    \/ ChildWrites
    \/ ReaderReads
    \/ ReaderFails

SpecStreams == InitStreams /\ [][NextStreams]_vars

(***************************************************************************)
(* cli.py: main() called a second time in the same interpreter             *)
(***************************************************************************)
\* After Args.__init__ returned or the program ended (the SystemExit of
\* exit(1) can be caught by a caller), Args(config) is constructed again for
\* the same command line.  Whatever the first call left behind stays: the
\* values of the first Args and ActionRunner objects, the class attribute
\* ActionRunner.processes, the children.
Again ==
    /\ pc \in {"runner", "exited", "returned"}
    /\ Len(resolutions) = 1
    /\ pc' = "args"
    /\ UNCHANGED <<loadVars, resolutions, streams, sink,
                   config, request, actions, action_args,
                   can_run_simultaneously, processes, children, i, snapshot,
                   j, k, resolution_error, warned, spawn_failed, interrupted,
                   reported, killed, kill_errors, exit_code>>

\* One call of main(), run as far as it gets, then a second resolution.
NextTwice ==
    \/ Len(resolutions) <= 1 /\ Next
    \/ Again

SpecTwice == Init /\ [][NextTwice]_vars

(***************************************************************************)
(* config.py: rebase_path and the validators of Module                     *)
(***************************************************************************)
\* Paths are sequences of components; an absolute path starts with "/".
\* get_git_repo_root(): the root of the repository.
RepoRoot == <<"/", "repo">>

\* Names of directories a configuration may mention.
DirNames == {"web", "docs"}

\* The ways a configuration may write the directory d: relative, with a
\* leading "/", or already below the repository root.
WorkDirs ==
    UNION { { <<d>>, <<"/", d>>, RepoRoot \o <<d>> } : d \in DirNames }

\* What the file system may hold below the repository root.
FileSystems == SUBSET { RepoRoot \o <<d>> : d \in DirNames }

\* PurePath.relative_to(root) returns (does not raise ValueError): root is
\* a leading part of p.
IsRelativeTo(p, root) ==
    Len(p) >= Len(root) /\ SubSeq(p, 1, Len(root)) = root

\* rebase_path(new_root, subdir): subdir as it is when it is below new_root;
\* otherwise its leading "/" is dropped and it is joined to new_root.
rebase_path(new_root, subdir) ==
    IF IsRelativeTo(subdir, new_root) THEN subdir
    ELSE new_root \o (IF subdir[1] = "/" THEN Tail(subdir) ELSE subdir)

\* Path.exists() of an absolute path.
Exists(p) == p = RepoRoot \/ p \in fs

\* The data of one module: its work_dir, and for each of its two actions
\* the work_dir the configuration sets for it (<<>>: none is set).
RawModules ==
    [work_dir : WorkDirs,
     actions : [1..Len(ActionNames) -> {<<>>} \cup {<<p>> : p \in WorkDirs}]]

\* Module.model_validate(data) is called for some module of the
\* configuration file; nothing else has happened yet.
InitLoad ==
    /\ raw \in RawModules
    /\ fs \in FileSystems
    /\ built = <<>>
    /\ pc = "validate"
    /\ config = <<>>
    /\ request = <<>>
    /\ actions = <<>>
    /\ action_args = <<>>
    /\ can_run_simultaneously = FALSE
    /\ processes = <<>>
    /\ children = <<>>
    /\ i = 1
    /\ snapshot = <<>>
    /\ j = 1
    /\ k = 1
    /\ resolution_error = "none"
    /\ warned = FALSE
    /\ spawn_failed = FALSE
    /\ interrupted = FALSE
    /\ reported = <<>>
    /\ killed = <<>>
    /\ kill_errors = <<>>
    /\ exit_code = <<>>
    /\ streams = [q \in StreamIds |-> NewStream]
    /\ sink = <<>>
    /\ resolutions = <<>>

\* The "before" validator rebase_workdir_onto_git_repo_root; of the two
\* "before" validators pydantic runs the one defined last first.
RebaseWorkdir ==
    /\ pc = "validate"
    /\ raw' = [raw EXCEPT !.work_dir = rebase_path(RepoRoot, @)]
    /\ pc' = "set_fields"
    /\ UNCHANGED <<fs, built, mainVars>>

\* The "before" validator set_additional_action_fields: an action without
\* work_dir gets the module's, a work_dir that is set is rebased.
SetAdditionalActionFields ==
    /\ pc = "set_fields"
    /\ raw' = [raw EXCEPT !.actions =
                  [n \in DOMAIN @ |->
                      IF @[n] = <<>> THEN <<raw.work_dir>>
                      ELSE <<rebase_path(RepoRoot, @[n][1])>>]]
    /\ pc' = "after"
    /\ UNCHANGED <<fs, built, mainVars>>

\* The fields are validated (the Actions and the Module are constructed),
\* then the "after" validator assert_workdir_exists finds the module's
\* work_dir and returns the Module.
AssertWorkdirExists ==
    /\ pc = "after"
    /\ Exists(raw.work_dir)
    /\ built' = << [work_dir |-> raw.work_dir,
                    actions |-> [n \in DOMAIN raw.actions |->
                                    [name |-> ActionNames[n],
                                     work_dir |-> raw.actions[n][1]]]] >>
    /\ pc' = "loaded"
    /\ UNCHANGED <<raw, fs, mainVars>>

\* assert_workdir_exists raises ValueError: the module's work_dir does not
\* exist, the validation fails.
AssertWorkdirFails ==
    /\ pc = "after"
    /\ ~Exists(raw.work_dir)
    /\ pc' = "load_failed"
    /\ UNCHANGED <<raw, fs, built, mainVars>>

NextLoad ==
    \/ RebaseWorkdir
    \/ SetAdditionalActionFields
    \/ AssertWorkdirExists
    \/ AssertWorkdirFails

SpecLoad == InitLoad /\ [][NextLoad]_vars

(***************************************************************************)
(* Vocabulary of the properties, stated on the configuration itself.       *)
(***************************************************************************)
\* The positions (in declaration order) of the modules defining action an.
DefiningModules(cfg, an) ==
    {mi \in 1..Len(cfg) : \E n \in 1..Len(cfg[mi].actions) :
                              cfg[mi].actions[n].name = an}

\* Module mi's Action named an.
ActionOf(cfg, mi, an) ==
    CHOOSE a \in Range(cfg[mi].actions) : a.name = an

\* The n-th defining module of an, counting in declaration order.
NthDefining(cfg, an, n) ==
    CHOOSE mi \in DefiningModules(cfg, an) :
        Cardinality({x \in DefiningModules(cfg, an) : x < mi}) = n - 1

\* The Actions named an, one per defining module, in declaration order.
ExpectedGroup(cfg, an) ==
    [n \in 1..Cardinality(DefiningModules(cfg, an)) |->
        ActionOf(cfg, NthDefining(cfg, an, n), an)]

\* The request names a module (a non-empty --module value) / names none.
Qualified == request.module # <<>> /\ request.module # <<"">>
Unqualified == request.module = <<>>

\* Args.__init__ is over.
Resolved == pc # "args"

\* The program ended with status 1 and started no child process.
EndedWithErrorBeforeSpawn ==
    /\ pc = "exited"
    /\ exit_code = <<1>>
    /\ children = <<>>

\* The children that are alive.
Alive == {p \in 1..Len(children) : children[p].state = "running"}

ConcurrentPcs == {"spawn", "register", "while", "for", "kill", "kill_wait"}
SequentialPcs == {"seq", "seq_wait"}

(***************************************************************************)
(* C1.  An action name defined in exactly one module is not a key of       *)
(* action_groups, and a request for it without a module qualifier ends     *)
(* with the NotAGroup error: exit status 1, no action selected, no child   *)
(* process started.  (The configuration never changes during a run, so     *)
(* the table of groups is examined in the states before resolution.)       *)
(***************************************************************************)
C1_UniqueNameIsNotAGroup ==
    /\ pc = "args" =>
           \A an \in ActionArgs :
               Cardinality(DefiningModules(config, an)) = 1 =>
                   an \notin DOMAIN action_groups(config)
    /\ (/\ Resolved
        /\ Unqualified
        /\ Cardinality(DefiningModules(config, request.action)) = 1) =>
           /\ resolution_error = "NotAGroup"
           /\ EndedWithErrorBeforeSpawn
           /\ actions = <<>>

C1_Witness ==
    /\ Resolved
    /\ Unqualified
    /\ Cardinality(DefiningModules(config, request.action)) = 1
    /\ resolution_error = "NotAGroup"

(***************************************************************************)
(* C2.  For an action name defined in two or more modules, the action      *)
(* group of that name holds exactly one Action per defining module, in     *)
(* module-declaration order; that list is what a request for the group     *)
(* selects.                                                                *)
(***************************************************************************)
C2_GroupIsOnePerModuleInOrder ==
    /\ pc = "args" =>
           \A an \in ActionArgs :
               Cardinality(DefiningModules(config, an)) >= 2 =>
                   /\ an \in DOMAIN action_groups(config)
                   /\ Len(action_groups(config)[an]) =
                          Cardinality(DefiningModules(config, an))
                   /\ action_groups(config)[an] = ExpectedGroup(config, an)
    /\ (/\ Resolved
        /\ Unqualified
        /\ Cardinality(DefiningModules(config, request.action)) >= 2) =>
           /\ resolution_error # "NotAGroup"
           /\ Len(actions) = Cardinality(DefiningModules(config, request.action))
           /\ \A n \in 1..Len(actions) :
                  actions[n] = ActionOf(config,
                                        NthDefining(config, request.action, n),
                                        request.action)

C2_Witness ==
    /\ pc = "runner"
    /\ Unqualified
    /\ Cardinality(DefiningModules(config, request.action)) = NumModules
    /\ Len(actions) = NumModules
    /\ actions[1].module_name = ModuleOrder[1]

(***************************************************************************)
(* C3.  The mode is the AND of the bg flags of the invocation's actions:   *)
(* the concurrent branch runs iff every action is backgroundable; if one   *)
(* is not, the whole invocation runs in the sequential branch, where at    *)
(* most one child is alive at any time and none is registered.             *)
(***************************************************************************)
C3_ModeIsAndOfFlags ==
    (resolution_error = "none" /\ pc \notin {"args", "runner"}) =>
        /\ can_run_simultaneously <=> (\A n \in 1..Len(actions) : actions[n].bg)
        /\ pc \in ConcurrentPcs => \A n \in 1..Len(actions) : actions[n].bg
        /\ pc \in SequentialPcs => \E n \in 1..Len(actions) : ~actions[n].bg
        /\ (\E n \in 1..Len(actions) : ~actions[n].bg) =>
               /\ pc \notin ConcurrentPcs
               /\ Cardinality(Alive) <= 1
               /\ processes = <<>>

C3_Witness ==
    /\ pc = "seq_wait"
    /\ Len(children) = 2
    /\ \E n \in 1..Len(actions) : actions[n].bg
    /\ \E n \in 1..Len(actions) : ~actions[n].bg

(***************************************************************************)
(* C4.  A group invoked with additional arguments: every child of an       *)
(* action that does not accept them is started with the action's own       *)
(* tokenized command only, every child of an action that accepts them      *)
(* with the arguments appended.                                            *)
(***************************************************************************)
C4_ArgsOnlyForAcceptingActions ==
    (Unqualified /\ action_args # <<>>) =>
        \A p \in 1..Len(children) :
            children[p].command =
                IF actions[children[p].action].args
                THEN ShlexSplit(actions[children[p].action].cmd) \o action_args
                ELSE ShlexSplit(actions[children[p].action].cmd)

C6_QualifiedArgsNotAllowed ==
    \A mi \in 1..Len(config) :
        (/\ Resolved
         /\ request.module = <<config[mi].name>>
         /\ mi \in DefiningModules(config, request.action)
         /\ ~ActionOf(config, mi, request.action).args) =>
            IF request.args # <<>>
            THEN /\ resolution_error = "ArgsNotAllowed"
                 /\ EndedWithErrorBeforeSpawn
            ELSE /\ resolution_error = "none"
                 /\ actions = <<ActionOf(config, mi, request.action)>>
                 /\ action_args = <<>>

C6_Witness ==
    /\ Resolved
    /\ Qualified
    /\ request.args # <<>>
    /\ resolution_error = "ArgsNotAllowed"

(***************************************************************************)
(* C7.  Group resolution with additional arguments fails with              *)
(* ArgsNotAllowed iff no action of the group accepts them; otherwise the   *)
(* invocation is the whole group in group order, and the warning is        *)
(* emitted exactly when some but not all actions accept them.              *)
(***************************************************************************)
C7_GroupArgs ==
    (/\ Resolved
     /\ Unqualified
     /\ Cardinality(DefiningModules(config, request.action)) >= 2
     /\ request.args # <<>>) =>
        LET g == ExpectedGroup(config, request.action)
            some == \E n \in 1..Len(g) : g[n].args
            every == \A n \in 1..Len(g) : g[n].args
        IN  /\ resolution_error = "ArgsNotAllowed" <=> ~some
            /\ ~some => EndedWithErrorBeforeSpawn
            /\ some => /\ resolution_error = "none"
                       /\ actions = g
                       /\ action_args = request.args
                       /\ warned <=> ~every

C7_Witness ==
    /\ pc = "runner"
    /\ Unqualified
    /\ request.args # <<>>
    /\ warned
    /\ Len(actions) = NumModules

(***************************************************************************)
(* C8.  Every resolution failure ends the program with exit status 1 and   *)
(* no child process is ever started in a run with a resolution failure.    *)
(***************************************************************************)
C8_ResolutionErrorEndsBeforeSpawn ==
    /\ resolution_error # "none" => EndedWithErrorBeforeSpawn
    /\ (Resolved /\ children = <<>> /\ pc = "exited" /\ ~spawn_failed /\ ~interrupted)
           => resolution_error \in
                  {"UnknownModule", "UnknownAction", "NotAGroup", "ArgsNotAllowed"}

C8_Witness ==
    /\ resolution_error = "ArgsNotAllowed"
    /\ actions # <<>>
    /\ pc = "exited"

(***************************************************************************)
(* C9.  Concurrent mode: an interrupt starts the teardown; from then on    *)
(* no child is started and no completion is reported; when the run ends,   *)
(* every process of the live set has been through the teardown (it has     *)
(* exited, or the failure to end it was reported) and the status is 1.     *)
(***************************************************************************)
C9_InterruptTearsDownAndExits ==
    [][ /\ (~interrupted /\ interrupted') => (pc \in ConcurrentPcs /\ pc' = "kill")
        /\ interrupted => /\ Len(children') = Len(children)
                          /\ reported' = reported
                          /\ pc' \in {"kill", "kill_wait", "exited"}
        /\ (interrupted /\ pc # "exited" /\ pc' = "exited") =>
               /\ exit_code' = <<1>>
               /\ \A n \in 1..Len(processes) :
                      \/ /\ processes[n] \in Range(killed)
                         /\ children[processes[n]].state = "exited"
                      \/ processes[n] \in Range(kill_errors)
      ]_vars

C9_Witness ==
    /\ interrupted
    /\ pc = "exited"
    /\ Len(killed) = 2
    /\ \E p \in 1..Len(children) : "SIGKILL" \in children[p].signals
    /\ \E p \in 1..Len(children) :
           children[p].signals = {"SIGTERM"} /\ children[p].code = SigTermCode

(***************************************************************************)
(* C10.  When a concurrent run returns normally or ends because of an      *)
(* interrupt, every child it started has been released: none is alive and  *)
(* the live set is empty.                                                  *)
(***************************************************************************)
C10_AllChildrenReleased ==
    (can_run_simultaneously /\ (pc = "returned" \/ (pc = "exited" /\ interrupted))) =>
        /\ Alive = {}
        /\ processes = <<>>

(***************************************************************************)
(* C11.  A spawn failure (executable not found), in either mode, ends the  *)
(* run with exit status 1, and no action later in the list is spawned:     *)
(* once the failure happened the program has exited, and every child that  *)
(* exists belongs to an action before the failing one.                     *)
(***************************************************************************)
C11_SpawnFailureAborts ==
    spawn_failed =>
        /\ pc = "exited"
        /\ exit_code = <<1>>
        /\ i <= Len(actions)
        /\ \A p \in 1..Len(children) : children[p].action < i

C11_Witness ==
    /\ spawn_failed
    /\ can_run_simultaneously
    /\ i = 2
    /\ Len(children) = 1
    /\ Len(actions) = 2

(***************************************************************************)
(* C12.  Concurrent mode: when the run ends because spawning an action     *)
(* failed, no child started earlier in that run is still alive.            *)
(***************************************************************************)
C12_SiblingsAbortedOnSpawnFailure ==
    (can_run_simultaneously /\ spawn_failed /\ pc = "exited") => Alive = {}

(***************************************************************************)
(* C13.  Without interrupt and spawn failure every action is run to        *)
(* completion whatever the exit codes are: the program only exits early    *)
(* on a resolution error, a spawn failure or an interrupt, never on a      *)
(* child's exit code; when run() returns the status is 0 and every action  *)
(* has a child that exited and whose completion was reported with its      *)
(* code.                                                                   *)
(***************************************************************************)
C13_ExitCodesDoNotStopTheRun ==
    /\ pc = "exited" =>
           (resolution_error # "none" \/ spawn_failed \/ interrupted)
    /\ pc = "returned" =>
           /\ exit_code = <<0>>
           /\ ~spawn_failed /\ ~interrupted
           /\ Len(reported) = Len(actions)
           /\ \A n \in 1..Len(actions) :
                  \E p \in 1..Len(children) :
                      /\ children[p].action = n
                      /\ children[p].state = "exited"
                      /\ \E m \in 1..Len(reported) :
                             reported[m] = [action |-> n,
                                            code |-> children[p].code]

C13_Witness ==
    /\ pc = "returned"
    /\ ~can_run_simultaneously
    /\ Len(reported) = 2
    /\ reported[1].code = 1
    /\ reported[2].code = 0

(***************************************************************************)
(* C14.  Sequential mode: the children are started in list order, at most  *)
(* one is alive at any time, the child of action n+1 is started only       *)
(* after the child of action n has exited and its completion was           *)
(* reported, and the completions are reported in list order.               *)
(***************************************************************************)
C14_SequentialOrder ==
    ~can_run_simultaneously =>
        /\ \A p \in 1..Len(children) : children[p].action = p
        /\ \A n \in 1..Len(reported) :
               /\ reported[n].action = n
               /\ n <= Len(children)
               /\ children[n].state = "exited"
               /\ reported[n].code = children[n].code
        /\ Len(children) <= Len(reported) + 1
        /\ Cardinality(Alive) <= 1
        /\ pc = "seq" => (Len(children) = Len(reported) /\ Alive = {})

C14_Witness ==
    /\ pc = "seq_wait"
    /\ Len(children) = 2
    /\ Len(reported) = 1
    /\ children[1].state = "exited"
    /\ children[2].state = "running"

C16_ReportedExactlyOnce ==
    can_run_simultaneously =>
        /\ \A a, b \in 1..Len(reported) :
               reported[a].action = reported[b].action => a = b
        /\ \A n \in 1..Len(reported) :
               \E p \in 1..Len(children) :
                   /\ children[p].action = reported[n].action
                   /\ children[p].state = "exited"
                   /\ children[p].code = reported[n].code
                   /\ p \notin Range(processes)
        /\ ~interrupted =>
               \A p \in 1..Len(children) :
                   (p < Len(children) \/ pc # "register") =>
                       (p \in Range(processes)) #
                           (\E n \in 1..Len(reported) :
                                reported[n].action = children[p].action)
        /\ pc = "returned" => Len(reported) = Len(actions)

C16_Witness ==
    /\ can_run_simultaneously
    /\ pc = "returned"
    /\ Len(reported) = 2
    /\ reported[1] = [action |-> 2, code |-> 1]
    /\ reported[2] = [action |-> 1, code |-> 0]

(***************************************************************************)
(* C17.  Concurrent mode, no interrupt, every child ends: once the         *)
(* control thread is at the poll loop, run() eventually returns normally   *)
(* (status 0) with an empty live set; and run() returns from the poll      *)
(* loop only in a step that found the live set empty.                      *)
(***************************************************************************)
C17_PollLoopTerminates ==
    /\ (can_run_simultaneously /\ pc = "while") ~>
           (pc = "returned" /\ exit_code = <<0>> /\ processes = <<>>)
    /\ [][ (can_run_simultaneously /\ pc # "returned" /\ pc' = "returned") =>
               (pc = "while" /\ processes = <<>>) ]_vars

C17_Witness ==
    /\ can_run_simultaneously
    /\ pc = "returned"
    /\ processes = <<>>
    /\ Len(children) = 2
    /\ \A p \in 1..Len(children) : children[p].code = 1

C19_TeardownBestEffort ==
    [][ /\ kill_errors' # kill_errors =>
               /\ kill_errors' = Append(kill_errors, processes[k])
               /\ k' = k + 1
               /\ pc' = "kill"
               /\ processes' = processes
        /\ (interrupted /\ pc # "exited" /\ pc' = "exited") =>
               /\ processes' = <<>>
               /\ \A n \in 1..Len(processes) :
                      processes[n] \in Range(killed) \cup Range(kill_errors)
      ]_vars

C19_Witness ==
    /\ interrupted
    /\ pc = "exited"
    /\ processes = <<>>
    /\ kill_errors = <<1>>
    /\ killed = <<2>>
    /\ children[1].state = "running"

(***************************************************************************)
(* C20.  Concurrent mode: every printed line is a line its child wrote to  *)
(* that stream, printed under the prefix of that action and stream; the    *)
(* lines printed for one stream are the first, second, ... line of the     *)
(* stream, in that order, none twice; and no two streams of a run share a  *)
(* prefix.  This holds in every state, whatever the interleaving of the    *)
(* reader threads, the children and the control thread.                    *)
(***************************************************************************)
C20_StreamOrderKept ==
    /\ \A m \in 1..Len(sink) :
           LET e == sink[m]
               q == <<e.child, e.stream>>
           IN  /\ e.child \in 1..Len(children)
               /\ e.n \in 1..streams[q].nread
               /\ e.text = <<"[">> \o Prefix(actions[children[e.child].action],
                                             e.stream)
                                   \o <<"]", Space>>
                                   \o Rstrip(streams[q].written[e.n])
               /\ e.n = 1 + Cardinality({m2 \in 1..(m - 1) :
                                            /\ sink[m2].child = e.child
                                            /\ sink[m2].stream = e.stream})
    /\ \A q1, q2 \in StreamIds :
           (q1[1] <= Len(children) /\ q2[1] <= Len(children) /\ q1 # q2) =>
               Prefix(actions[children[q1[1]].action], q1[2]) #
                   Prefix(actions[children[q2[1]].action], q2[2])

C20_Witness ==
    /\ Len(sink) = 2
    /\ sink[1].child = 2 /\ sink[1].stream = "stderr" /\ sink[1].n = 1
    /\ sink[2].child = 2 /\ sink[2].stream = "stderr" /\ sink[2].n = 2
    /\ sink[1].text = <<"[", "api", ".", "start", Space, "ERR", "]", Space,
                       "o", "k">>
    /\ children[1].state = "running"

(***************************************************************************)
(* C21.  Every Action of a Module that was constructed has a work_dir      *)
(* below the repository root that exists (so the construction fails when   *)
(* the work_dir of an action, inherited or set on the action, does not     *)
(* exist).                                                                 *)
(***************************************************************************)
C21_WorkDirsRootedAndExisting ==
    pc = "loaded" =>
        \A n \in DOMAIN built[1].actions :
            /\ IsRelativeTo(built[1].actions[n].work_dir, RepoRoot)
            /\ Exists(built[1].actions[n].work_dir)

(***************************************************************************)
(* C22.  Concurrent mode: when run() has reported "All actions completed"  *)
(* and returned, every line a child wrote to its stdout or stderr pipe     *)
(* has been printed.                                                       *)
(***************************************************************************)
C22_StreamsDrainedAtCompletion ==
    (can_run_simultaneously /\ pc = "returned") =>
        \A q \in StreamIds :
            \A n \in 1..Len(streams[q].written) :
                \E m \in 1..Len(sink) :
                    /\ sink[m].child = q[1]
                    /\ sink[m].stream = q[2]
                    /\ sink[m].n = n

====
